---------------------------- MODULE Spec2Model ----------------------------
(***************************************************************************)
(* riddl-js (src/lib/index.js): a React Provider that keeps the global     *)
(* state in its component state and hands {globalState, setGlobalState}    *)
(* to connected components through a React context.                        *)
(*                                                                         *)
(* setGlobalState is `this.setState.bind(this)` of the Provider (line 40), *)
(* so the update path is React's class-component setState: the payload is  *)
(* type-checked at the call, the update is queued on the Provider, the     *)
(* queue is processed in order when React renders the Provider (at once    *)
(* outside a React batch, at the end of the batch inside one), the         *)
(* Provider and every context Consumer below it re-render, and then the    *)
(* setState callbacks run.                                                 *)
(***************************************************************************)
EXTENDS Naturals, Sequences, FiniteSets, TLC

(***************************************************************************)
(* Bounds of the model.                                                    *)
(***************************************************************************)
\* update calls issued by consumers and by invoked transmitters
MaxCalls == 2
\* Provider instances ever mounted (the first one and its replacements)
MaxProviders == 2

(***************************************************************************)
(* Values.  A JavaScript primitive is [prim |-> v]; a nested object is a   *)
(* record of primitives; a snapshot is a record from top-level keys to     *)
(* such values.                                                            *)
(***************************************************************************)
Prim(v) == [prim |-> v]

EmptyObject == [k \in {} |-> Prim("")]

Undefined == Prim("undefined")

Null == Prim("null")

IsPrimitive(v) == DOMAIN v = {"prim"}

\* reading a property of null or undefined throws a TypeError
IsNullish(v) == v \in {Undefined, Null}

\* the own enumerable properties of a value: a number, null and undefined
\* have none
OwnProperties(v) == IF IsPrimitive(v) THEN EmptyObject ELSE v

\* v[k] of a value that is not null or undefined: undefined for a missing key
Get(v, k) == IF k \in DOMAIN OwnProperties(v) THEN v[k] ELSE Undefined

\* <Provider globalState={...}>: the object the application passes in
GlobalStates ==
    { [result |-> Prim("none"), portion |-> [foo |-> Prim("bar")], rest |-> [bar |-> Prim("x")]] }

\* the props of <Provider>: globalState the object, the number 7, or left out
ProviderProps ==
    {[globalState |-> gs] : gs \in GlobalStates \cup {Prim("7")}} \cup {EmptyObject}

\* the props a parent renders the mounted <Provider> with again
RerenderProps ==
    { [globalState |-> [result |-> Prim("again"), portion |-> EmptyObject, rest |-> EmptyObject]] }

\* {...a, ...b}: object spread, the later layer wins a key collision; a
\* spread value that is not an object contributes nothing
Spread(a, b) ==
    [k \in DOMAIN OwnProperties(a) \cup DOMAIN OwnProperties(b) |->
        IF k \in DOMAIN OwnProperties(b) THEN b[k] ELSE a[k]]

(***************************************************************************)
(* Update payloads (the first argument of setGlobalState) and callbacks    *)
(* (the second).                                                           *)
(***************************************************************************)
\* typeof payload, with null told apart as React's `!= null` test does
PayloadType(p) ==
    CASE p \in {"pFlipping", "pWon", "pLost", "pPortion", "pClash"} -> "object"
      [] p = "fCopy"      -> "function"
      [] p = "pNull"      -> "null"
      [] p = "pUndefined" -> "undefined"
      [] p = "pNumber"    -> "number"
      [] p = "pString"    -> "string"

\* the object literal of an object payload
ObjectOf(p) ==
    CASE p = "pFlipping" -> [result |-> Prim("Flipping!!")]
      [] p = "pWon"      -> [result |-> Prim("YOU WON!")]
      [] p = "pLost"     -> [result |-> Prim("YOU LOST!")]
      [] p = "pPortion"  -> [portion |-> [baz |-> Prim("qux")]]
      [] p = "pClash"    -> [coinflip |-> Prim("fromState"), setGlobalState |-> Prim("fromState")]

\* a function payload, prevState => partial: fCopy is
\* prev => ({rest: (prev || {}).portion})
CallFn(f, prevState) ==
    CASE f = "fCopy" -> [rest |-> Get(prevState, "portion")]

\* the update a callback makes when React calls it: "none" is no callback,
\* "cbNote" makes none, "cbThen" is () => setGlobalState(fCopy)
CallbackUpdate(cb) ==
    IF cb = "cbThen" THEN <<[payload |-> "fCopy", callback |-> "none"]>> ELSE <<>>

\* the (payload, callback) argument lists consumers call setGlobalState with
ConsumerCalls ==
    { <<"pPortion", "none">>, <<"pPortion", "cbThen">>, <<"fCopy", "none">>,
      <<"pClash", "cbNote">>, <<"pFlipping", "cbNote">>, <<"pNull", "cbNote">>,
      <<"pUndefined", "none">>, <<"pNumber", "cbNote">>, <<"pString", "none">> }


(***************************************************************************)
(* connect (lines 12-31).  Two connected components, as in the README:     *)
(*   Game = connect(Game, null, {coinflip})                                *)
(*   Part = connect(NeedsPartOfState, state => state.portion)              *)
(***************************************************************************)
Connectors == {"Game", "Part"}

\* the third argument of connect, `transmitters = {}` by default: its names
Transmitters(c) == IF c = "Game" THEN {"coinflip"} ELSE {}

\* an exception leaving a function instead of a value
Thrown(error) == [thrown |-> error]

IsThrown(v) == DOMAIN v = {"thrown"}

\* a context created with a default value of the Provider's shape
GlobalContextWithDefault == [globalState |-> EmptyObject, setGlobalState |-> [sgs |-> 0]]

\* React.createContext() (line 4) has no default value: what a Consumer with
\* no Provider above it is given
GlobalContext == Undefined

\* no selector selecting nothing
mapStateToPropsRequired(c, globalState) ==
    IF c = "Part"
    THEN IF IsNullish(globalState) THEN Thrown("TypeError") ELSE Get(globalState, "portion")
    ELSE EmptyObject

\* what the selector returns laid over the whole state
mapStateToPropsMerged(c, globalState) ==
    IF c = "Part"
    THEN IF IsNullish(globalState) THEN Thrown("TypeError")
         ELSE Spread(globalState, Get(globalState, "portion"))
    ELSE globalState

\* the second argument of connect, applied as line 23 applies it: no selector
\* (null, or left out) gives globalState itself, state => state.portion
\* throws where state is null or undefined
mapStateToProps(c, globalState) ==
    IF c = "Part"
    THEN IF IsNullish(globalState) THEN Thrown("TypeError") ELSE Get(globalState, "portion")
    ELSE globalState

\* the props the parent passes to the connected component (`props`, line 12)
OwnProps ==
    { EmptyObject,
      [coinflip |-> Prim("own"), result |-> Prim("own"), setGlobalState |-> Prim("own"),
       foo |-> Prim("own")] }

\* this.setState.bind(this) of Provider instance `inst` (line 40)
Entrypoint(inst) == [sgs |-> inst]

IsEntrypoint(v) == DOMAIN v = {"sgs"}

IsBound(v) == DOMAIN v = {"bound", "with"}

\* the entrypoint a layer of bound transmitters was built with, were it
\* remembered from the first Provider instead of taken from the argument
BindFirstEntrypoint(transmitters, setGlobalState) ==
    [func \in transmitters |-> [bound |-> func, with |-> Entrypoint(1)]]

\* _mapTransmittersToProps (lines 13-19): output[func] closes over
\* transmitters[func] and over the setGlobalState of this Consumer render
_mapTransmittersToProps(transmitters, setGlobalState) ==
    [func \in transmitters |-> [bound |-> func, with |-> setGlobalState]]

\* value={{ globalState: this.state, setGlobalState: this.setState.bind(this) }}
ProviderValue(st, inst) ==
    [globalState |-> st, setGlobalState |-> Entrypoint(inst)]

\* the props of <Component> (line 26),
\* setGlobalState={setGlobalState} {...mappedState} {...mappedTransmitters} {...props}
ComponentProps(setGlobalState, mappedState, mappedTransmitters, props) ==
    Spread(Spread(Spread([setGlobalState |-> setGlobalState], mappedState),
                  mappedTransmitters),
           props)

\* the props of <Component> with the spread layers in another order
ComponentPropsOwnFirst(setGlobalState, mappedState, mappedTransmitters, props) ==
    Spread(Spread(Spread(props, [setGlobalState |-> setGlobalState]), mappedState),
           mappedTransmitters)

\* an exception of the selector caught, the component rendered without the
\* props from the state
MappedCatching(c, setGlobalState, mappedState, props) ==
    ComponentProps(setGlobalState, IF IsThrown(mappedState) THEN EmptyObject ELSE mappedState,
                   _mapTransmittersToProps(Transmitters(c), setGlobalState), props)

\* lines 23-27: an exception of the selector leaves the render function
Mapped(c, setGlobalState, mappedState, props) ==
    IF IsThrown(mappedState) THEN mappedState
    ELSE ComponentProps(setGlobalState, mappedState,
                        _mapTransmittersToProps(Transmitters(c), setGlobalState), props)

MappedOwnFirst(c, setGlobalState, mappedState, props) ==
    IF IsThrown(mappedState) THEN mappedState
    ELSE ComponentPropsOwnFirst(setGlobalState, mappedState,
                                _mapTransmittersToProps(Transmitters(c), setGlobalState), props)

\* the Consumer's render function with the spread layers in another order
ConsumerRenderOwnFirst(c, value, props) ==
    IF IsNullish(value) THEN Thrown("TypeError")
    ELSE MappedOwnFirst(c, value.setGlobalState, mapStateToProps(c, value.globalState), props)

\* the Consumer's render function (lines 22-28): destructuring the context
\* value ({ globalState, setGlobalState }) throws where there is none; the
\* result is the props <Component> is rendered with
ConsumerRender(c, value, props) ==
    IF IsNullish(value) THEN Thrown("TypeError")
    ELSE Mapped(c, value.setGlobalState, mapStateToProps(c, value.globalState), props)

(***************************************************************************)
(* React's setState, reached through this.setState.bind(this) (line 40).   *)
(***************************************************************************)
\* setState without its check of the payload
SetStateUnchecked(p) == TRUE

\* Component.prototype.setState rejects a payload that is not an object, not
\* a function and not null/undefined (typeof null is "object")
SetStateAccepts(p) ==
    PayloadType(p) \in {"object", "function", "null", "undefined"}

\* the error setState throws to its caller
InvalidUpdatePayload == "InvalidUpdatePayload"

\* a function payload called with the state the Provider last rendered
PrevStateCommitted(running, committed) == committed

\* the prevState a function payload is called with: the state that results
\* from the updates queued before it
PrevState(running, committed) == running

\* a merge that descends into nested objects
getStateFromUpdateDeep(prev, partial) ==
    [k \in DOMAIN prev \cup DOMAIN partial |->
        IF k \notin DOMAIN partial THEN prev[k]
        ELSE IF k \notin DOMAIN prev THEN partial[k]
        ELSE IF "prim" \in DOMAIN prev[k] \cup DOMAIN partial[k] THEN partial[k]
        ELSE Spread(prev[k], partial[k])]

\* Object.assign({}, prevState, partialState)
getStateFromUpdate(prev, partial) == Spread(prev, partial)

\* one update applied: a null or undefined partial state leaves prevState as
\* it is
ApplyUpdate(running, committed, p) ==
    CASE PayloadType(p) = "object"   -> getStateFromUpdate(running, ObjectOf(p))
      [] PayloadType(p) = "function" ->
            getStateFromUpdate(running, CallFn(p, PrevState(running, committed)))
      [] OTHER -> running

\* the queue processed last update first
RECURSIVE processUpdateQueueReversed(_, _, _)
processUpdateQueueReversed(st, q, committed) ==
    IF q = <<>> THEN st
    ELSE processUpdateQueueReversed(ApplyUpdate(st, committed, q[Len(q)].payload),
                                    SubSeq(q, 1, Len(q) - 1), committed)

\* the Provider's update queue processed in the order the updates were queued
RECURSIVE processUpdateQueue(_, _, _)
processUpdateQueue(st, q, committed) ==
    IF q = <<>> THEN st
    ELSE processUpdateQueue(ApplyUpdate(st, committed, Head(q).payload), Tail(q), committed)


(***************************************************************************)
(* The state of the running application.                                   *)
(***************************************************************************)
VARIABLES
    active,    \* the Provider instance constructed last (1, 2, ...)
    mounted,   \* it is mounted: no render error has unmounted the tree
    state,     \* this.state of the mounted Provider (line 36)
    queue,     \* updates queued on the Provider inside the current React batch
    batching,  \* a React event handler is running: setState calls are batched
    conn,      \* per connected component: mounted, its own props, the props
               \* its Consumer render last gave <Component>
    inflight,  \* transmitters whose timer or promise has not settled yet: the
               \* entrypoint they were called with, the Provider mounted then
    calls,     \* update calls the mounted Providers have accepted
    commits,   \* times a new this.state was committed
    passes,    \* times the Consumers were re-rendered after a commit
    expected,  \* the accepted payloads folded, in the order of their calls,
               \* over the globalState the Provider was constructed with
    trace      \* what the last step did, in order

vars == <<active, mounted, state, queue, batching, conn, inflight, calls, commits, passes,
          expected, trace>>

Detached == [attached |-> FALSE, own |-> EmptyObject, props |-> EmptyObject, stale |-> FALSE]

\* no connected component is mounted
Unmounted == [c \in Connectors |-> Detached]

Attached(cn) == {c \in Connectors : cn[c].attached}

\* the Consumers re-rendered only where the derived props differ
RenderConsumersIfChanged(cn, value) ==
    [c \in Connectors |->
        IF cn[c].attached /\ ConsumerRender(c, value, cn[c].own) # cn[c].props
        THEN [attached |-> TRUE, own |-> cn[c].own, stale |-> FALSE,
              props |-> ConsumerRender(c, value, cn[c].own)]
        ELSE cn[c]]

\* Provider.render (lines 38-44) makes a new context value object, so React
\* calls the render function of every Consumer below it (lines 22-28)
RenderConsumers(cn, value) ==
    [c \in Connectors |->
        IF cn[c].attached
        THEN [attached |-> TRUE, own |-> cn[c].own, stale |-> FALSE,
              props |-> ConsumerRender(c, value, cn[c].own)]
        ELSE cn[c]]

\* a new snapshot was committed and the mounted Consumers have not seen it yet
AwaitingRender(cn) == [c \in Connectors |-> [cn[c] EXCEPT !.stale = cn[c].attached]]

\* the fold of the calls so far, one call further
Fold(exp, p) == ApplyUpdate(exp, exp, p)

RECURSIVE FoldAll(_, _)
FoldAll(exp, q) == IF q = <<>> THEN exp ELSE FoldAll(Fold(exp, Head(q).payload), Tail(q))

\* the queue entries of a sequence of calls, each with the fold at its call
Entries(exp, q) ==
    [i \in 1..Len(q) |->
        [payload |-> q[i].payload, callback |-> q[i].callback,
         pre |-> FoldAll(exp, SubSeq(q, 1, i - 1))]]

\* update u processed: what it was applied to and what it gave
ApplyEvent(u, running, committed) ==
    [ev |-> "apply", payload |-> u.payload, pre |-> u.pre,
     arg |-> IF PayloadType(u.payload) = "function"
             THEN PrevState(running, committed) ELSE EmptyObject,
     next |-> ApplyUpdate(running, committed, u.payload)]

Applied(st, q) ==
    [i \in 1..Len(q) |->
        ApplyEvent(q[i], processUpdateQueue(st, SubSeq(q, 1, i - 1), st), st)]

\* no render either when the processed state has the old state's content
BailoutWhenEqual(st, q) == processUpdateQueue(st, q, st) = st

\* React skips the render when the state object is the old one: every
\* payload was null or undefined
Bailout(st, q) == \A i \in 1..Len(q) : PayloadType(q[i].payload) \in {"null", "undefined"}

WithNotify(r) ==
    [r EXCEPT !.events =
        @ \o <<[ev |-> "notify", evaluated |-> {c \in Attached(r.conn) : ~r.conn[c].stale}]>>]

Rendered(st, cn, q, inst, next) ==
    [state |-> next,
     conn |-> RenderConsumers(AwaitingRender(cn), ProviderValue(next, inst)),
     commits |-> 1, passes |-> 1,
     events |-> Applied(st, q) \o <<[ev |-> "commit", snapshot |-> next]>>]

\* React rendering the Provider with the updates q pending: the queue is
\* processed, and unless the state object is the old one Provider.render
\* runs and the Consumers re-render
ProviderUpdate(st, cn, q, inst) ==
    IF Bailout(st, q)
    THEN [state |-> st, conn |-> cn, commits |-> 0, passes |-> 0, events |-> Applied(st, q)]
    ELSE WithNotify(Rendered(st, cn, q, inst, processUpdateQueue(st, q, st)))

\* the callbacks run with the Provider as it was before the update
CallbackViewBefore(before, after) == before

\* what a setState callback finds when React calls it: the Provider and the
\* Consumers after the render that processed its update
CallbackView(before, after) == after

CallbackEvent(u, view, post) ==
    [ev |-> "callback", callback |-> u.callback, payload |-> u.payload,
     saw |-> view.state,
     sawProps |-> [c \in Attached(view.conn) |-> view.conn[c].props],
     post |-> post]

WithCallback(q) == SelectSeq(q, LAMBDA u : u.callback # "none")

CallbackEvents(q, view, post) ==
    [i \in 1..Len(WithCallback(q)) |-> CallbackEvent(WithCallback(q)[i], view, post)]

RECURSIVE CallbackUpdates(_)
CallbackUpdates(q) ==
    IF q = <<>> THEN <<>> ELSE CallbackUpdate(Head(q).callback) \o CallbackUpdates(Tail(q))

CallEvents(by, q) ==
    [i \in 1..Len(q) |->
        [ev |-> "update", by |-> by, payload |-> q[i].payload, callback |-> q[i].callback,
         batched |-> TRUE]]

Joined(first, cbEvents, inner, second, exp) ==
    [state |-> second.state, conn |-> second.conn,
     commits |-> first.commits + second.commits,
     passes |-> first.passes + second.passes,
     calls |-> Len(inner),
     expected |-> FoldAll(exp, inner),
     events |-> first.events \o cbEvents \o CallEvents("callback", inner) \o second.events]

\* the updates the callbacks made are rendered right after the commit the
\* callbacks ran in
AfterCallbacks(inst, exp, first, cbEvents, inner) ==
    IF inner = <<>>
    THEN [state |-> first.state, conn |-> first.conn, commits |-> first.commits,
          passes |-> first.passes, calls |-> 0, expected |-> exp,
          events |-> first.events \o cbEvents]
    ELSE Joined(first, cbEvents, inner,
                ProviderUpdate(first.state, first.conn, inner, inst), exp)

RunCallbacks(st, cn, q, inst, exp, first) ==
    AfterCallbacks(inst, exp, first,
                   CallbackEvents(q, CallbackView([state |-> st, conn |-> cn],
                                                  [state |-> first.state, conn |-> first.conn]),
                                  exp),
                   Entries(exp, CallbackUpdates(q)))

\* the pending updates q flushed: the Provider rendered, then the callbacks
Flush(st, cn, q, inst, exp) ==
    RunCallbacks(st, cn, q, inst, exp, ProviderUpdate(st, cn, q, inst))


(***************************************************************************)
(* Transmitters (README lines 175-198).                                    *)
(*   coinflip = guess => setGlobalState => new Promise(...)                *)
(***************************************************************************)
\* the argument lists a component calls props.coinflip with
ArgLists == { <<"HEADS">>, <<"TAILS", "extra">>, <<>> }

Draws == {"HEADS", "TAILS"}

\* the first parameter of a call, undefined when the list is empty
FirstArg(args) == IF Len(args) >= 1 THEN args[1] ELSE "undefined"

\* the comparison with its branches exchanged
OutcomeInverted(guess, draw) == IF draw = guess THEN "pLost" ELSE "pWon"

\* result === guess ? res("YOU WON!") : rej("YOU LOST!"), then the
\* .then / .catch handler's setGlobalState({result: ...})
Outcome(guess, draw) == IF draw = guess THEN "pWon" ELSE "pLost"

\* what the second stage of a transmitter returns: coinflip's promise chain
TransmitterResult(name) == [promise |-> name]

\* the bound function passing on its first argument only
BoundCallFirstArgOnly(b, args) ==
    <<[ev |-> "stage1", name |-> b.bound, args |-> IF args = <<>> THEN <<>> ELSE <<args[1]>>],
      [ev |-> "stage2", name |-> b.bound, with |-> b.with,
       returned |-> TransmitterResult(b.bound)]>>

\* line 16, (...args) => transmitters[func].apply(null, args)(setGlobalState):
\* the calls the bound function makes
BoundCall(b, args) ==
    <<[ev |-> "stage1", name |-> b.bound, args |-> args],
      [ev |-> "stage2", name |-> b.bound, with |-> b.with,
       returned |-> TransmitterResult(b.bound)]>>

(***************************************************************************)
(* The steps.                                                              *)
(***************************************************************************)
\* Provider's constructor (lines 34-37): this.state = props.globalState
ProviderConstructor(props) == Get(props, "globalState")

Init ==
    /\ active = 1
    /\ mounted = TRUE
    /\ \E props \in ProviderProps :
          /\ state = ProviderConstructor(props)
          /\ trace = <<[ev |-> "construct", props |-> props]>>
    /\ expected = state
    /\ queue = <<>>
    /\ batching = FALSE
    /\ conn = Unmounted
    /\ inflight = <<>>
    /\ calls = 0
    /\ commits = 0
    /\ passes = 0

\* an exception thrown while React renders is caught by no error boundary
\* (lines 12-45 have none): React unmounts the whole tree
UncaughtError == [ev |-> "throw", error |-> "TypeError"]

\* the Consumer render function of connector c returned or threw `rendered`
\* while the component mounted
Mounting(c, own, rendered, before) ==
    IF IsThrown(rendered)
    THEN /\ conn' = Unmounted
         /\ mounted' = FALSE
         /\ trace' = before \o <<UncaughtError>>
    ELSE /\ conn' = [conn EXCEPT ![c] =
                        [attached |-> TRUE, own |-> own, stale |-> FALSE, props |-> rendered]]
         /\ mounted' = mounted
         /\ trace' = before

\* mounting with the own props assigned into globalState itself
AttachMutating(c, own) ==
    /\ ~batching
    /\ mounted
    /\ ~conn[c].attached
    /\ Mounting(c, own, ConsumerRender(c, ProviderValue(state, active), own),
                <<[ev |-> "attach", by |-> c, outside |-> FALSE]>>)
    /\ state' = Spread(state, own)
    /\ UNCHANGED <<active, queue, batching, inflight, calls, commits, passes, expected>>

\* <ConnectedComponent {...own}/> mounts under the Provider
Attach(c, own) ==
    /\ ~batching
    /\ mounted
    /\ ~conn[c].attached
    /\ Mounting(c, own, ConsumerRender(c, ProviderValue(state, active), own),
                <<[ev |-> "attach", by |-> c, outside |-> FALSE]>>)
    /\ UNCHANGED <<active, state, queue, batching, inflight, calls, commits, passes, expected>>

\* the render function of connector c threw outside the Provider, in the
\* Provider's tree or in a tree of its own
Outside(c, own, sameRoot, rendered, before) ==
    IF IsThrown(rendered) /\ ~sameRoot
    THEN /\ trace' = before \o <<UncaughtError>>
         /\ UNCHANGED <<conn, mounted>>
    ELSE Mounting(c, own, rendered, before)

\* <ConnectedComponent {...own}/> mounts with no Provider above it
AttachOutside(c, own, sameRoot) ==
    /\ ~batching
    /\ sameRoot => mounted
    /\ ~conn[c].attached
    /\ Outside(c, own, sameRoot, ConsumerRender(c, GlobalContext, own),
               <<[ev |-> "attach", by |-> c, outside |-> TRUE]>>)
    /\ UNCHANGED <<active, state, queue, batching, inflight, calls, commits, passes, expected>>

\* the connected component unmounts
Detach(c) ==
    /\ ~batching
    /\ conn[c].attached
    /\ conn' = [conn EXCEPT ![c] = Detached]
    /\ trace' = <<[ev |-> "detach", by |-> c]>>
    /\ UNCHANGED <<active, mounted, state, queue, batching, inflight, calls, commits, passes,
                   expected>>

\* React starts dispatching an event to a handler: batchedUpdates begins
BeginHandler ==
    /\ ~batching
    /\ Attached(conn) # {}
    /\ calls < MaxCalls
    /\ batching' = TRUE
    /\ trace' = <<[ev |-> "handler"]>>
    /\ UNCHANGED <<active, mounted, state, queue, conn, inflight, calls, commits, passes,
                   expected>>

\* the outcome f of a flush becomes the state of the application
Committed(n, f, before, after) ==
    /\ state' = f.state
    /\ conn' = f.conn
    /\ commits' = commits + f.commits
    /\ passes' = passes + f.passes
    /\ calls' = n + f.calls
    /\ expected' = f.expected
    /\ trace' = before \o f.events \o after

CallEvent(by, p, cb) ==
    [ev |-> "update", by |-> by, payload |-> p, callback |-> cb, batched |-> batching]

\* setGlobalState(payload, callback) on the entrypoint `target`, called by
\* `by`, with the events `before` leading to the call and the events `after`
\* that follow its return
SetState(by, target, p, cb, before, after) ==
    IF ~SetStateAccepts(p)
    THEN /\ trace' = before \o <<CallEvent(by, p, cb),
                                 [ev |-> "throw", error |-> InvalidUpdatePayload]>>
         /\ UNCHANGED <<state, queue, conn, calls, commits, passes, expected>>
    ELSE IF target.sgs # active \/ ~mounted
    THEN \* setState on an unmounted component does nothing
         /\ trace' = before \o <<CallEvent(by, p, cb), [ev |-> "dropped"]>> \o after
         /\ UNCHANGED <<state, queue, conn, calls, commits, passes, expected>>
    ELSE IF batching
    THEN /\ queue' = Append(queue, [payload |-> p, callback |-> cb, pre |-> expected])
         /\ expected' = Fold(expected, p)
         /\ calls' = calls + 1
         /\ trace' = before \o <<CallEvent(by, p, cb)>> \o after
         /\ UNCHANGED <<state, conn, commits, passes>>
    ELSE /\ Committed(calls + 1,
                      Flush(state, conn, <<[payload |-> p, callback |-> cb, pre |-> expected]>>,
                            active, Fold(expected, p)),
                      before \o <<CallEvent(by, p, cb)>>, after)
         /\ UNCHANGED queue

\* a connected component calls props.setGlobalState(payload, callback)
CallUpdate(c, p, cb) ==
    /\ conn[c].attached
    /\ "setGlobalState" \in DOMAIN conn[c].props
    /\ IsEntrypoint(conn[c].props.setGlobalState)
    /\ calls < MaxCalls
    /\ SetState(c, conn[c].props.setGlobalState, p, cb, <<>>, <<>>)
    /\ UNCHANGED <<active, mounted, batching, inflight>>

\* coinflip(...args)(setGlobalState) as the bound function called it: it calls
\* setGlobalState({result: "Flipping!!"}), draws, and starts its timer
Coinflip(c, args, draw, stage1, stage2) ==
    /\ SetState("coinflip", stage2.with, "pFlipping", "none",
                <<[ev |-> "invoke", by |-> c, name |-> "coinflip", args |-> args],
                  stage1, stage2>>,
                <<[ev |-> "timer", draw |-> draw]>>)
    /\ inflight' = Append(inflight,
                          [by |-> c, with |-> stage2.with, during |-> active,
                           outcome |-> Outcome(FirstArg(stage1.args), draw)])

Invoked(c, args, draw, made) == Coinflip(c, args, draw, made[1], made[2])

\* a connected component calls props.coinflip(...args)
InvokeTransmitter(c, args, draw) ==
    /\ conn[c].attached
    /\ "coinflip" \in DOMAIN conn[c].props
    /\ IsBound(conn[c].props.coinflip)
    /\ calls < MaxCalls
    /\ Invoked(c, args, draw, BoundCall(conn[c].props.coinflip, args))
    /\ UNCHANGED <<active, mounted, batching>>

\* the promise handler leaving the update out once the component that
\* invoked the transmitter has unmounted
SettleTransmitterIfAttached(i) ==
    /\ ~batching
    /\ i \in 1..Len(inflight)
    /\ IF conn[inflight[i].by].attached
       THEN SetState("coinflip", inflight[i].with, inflight[i].outcome, "none",
                     <<[ev |-> "settle", of |-> inflight[i]]>>, <<>>)
       ELSE /\ trace' = <<[ev |-> "settle", of |-> inflight[i]], [ev |-> "cancelled"]>>
            /\ UNCHANGED <<state, queue, conn, calls, commits, passes, expected>>
    /\ inflight' = SubSeq(inflight, 1, i - 1) \o SubSeq(inflight, i + 1, Len(inflight))
    /\ UNCHANGED <<active, mounted, batching>>

\* the timer of an in-flight coinflip fires and its promise handler calls
\* setGlobalState({result: victory}) or setGlobalState({result: defeat})
SettleTransmitter(i) ==
    /\ ~batching
    /\ i \in 1..Len(inflight)
    /\ SetState("coinflip", inflight[i].with, inflight[i].outcome, "none",
                <<[ev |-> "settle", of |-> inflight[i]]>>, <<>>)
    /\ inflight' = SubSeq(inflight, 1, i - 1) \o SubSeq(inflight, i + 1, Len(inflight))
    /\ UNCHANGED <<active, mounted, batching>>

\* the event handler returns: React renders the Provider with the batch
EndHandler ==
    /\ batching
    /\ batching' = FALSE
    /\ queue' = <<>>
    /\ Committed(calls, Flush(state, conn, queue, active, expected),
                 <<[ev |-> "flush", pending |-> queue]>>, <<>>)
    /\ UNCHANGED <<active, mounted, inflight>>

\* React rendering the Consumers below a Provider render that gave `value`,
\* after the events `before`
Remounted(cn, value, before) ==
    IF \E c \in Attached(cn) : IsThrown(ConsumerRender(c, value, cn[c].own))
    THEN /\ conn' = Unmounted
         /\ mounted' = FALSE
         /\ trace' = before \o <<UncaughtError>>
    ELSE /\ conn' = RenderConsumers(cn, value)
         /\ mounted' = TRUE
         /\ trace' = before

\* the application replaces the Provider by a new one (another key, or a new
\* ReactDOM.render): the old instance and its subtree unmount, the new one is
\* constructed with its props (lines 34-37) and the connected components
\* mount again
ReplaceProvider(props) ==
    /\ ~batching
    /\ active < MaxProviders
    /\ active' = active + 1
    /\ state' = ProviderConstructor(props)
    /\ expected' = ProviderConstructor(props)
    /\ Remounted(conn, ProviderValue(ProviderConstructor(props), active + 1),
                 <<[ev |-> "replace"], [ev |-> "construct", props |-> props]>>)
    /\ UNCHANGED <<queue, batching, inflight, calls, commits, passes>>

\* a later render of the Provider taking its state from the props again
RerenderProviderResetting(props) ==
    /\ ~batching
    /\ mounted
    /\ state' = ProviderConstructor(props)
    /\ Remounted(conn, ProviderValue(ProviderConstructor(props), active),
                 <<[ev |-> "rerender", props |-> props]>>)
    /\ UNCHANGED <<active, queue, batching, inflight, calls, commits, passes, expected>>

\* the parent of the mounted Provider renders it again with other props: the
\* constructor does not run again, render (lines 38-44) does
RerenderProvider(props) ==
    /\ ~batching
    /\ mounted
    /\ Remounted(conn, ProviderValue(state, active), <<[ev |-> "rerender", props |-> props]>>)
    /\ UNCHANGED <<active, state, queue, batching, inflight, calls, commits, passes, expected>>

Next ==
    \/ \E c \in Connectors, own \in OwnProps : Attach(c, own)
    \/ \E c \in Connectors, own \in OwnProps, sameRoot \in BOOLEAN : AttachOutside(c, own, sameRoot)
    \/ \E c \in Connectors : Detach(c)
    \/ BeginHandler
    \/ EndHandler
    \/ \E c \in Connectors, call \in ConsumerCalls : CallUpdate(c, call[1], call[2])
    \/ \E c \in Connectors, args \in ArgLists, draw \in Draws : InvokeTransmitter(c, args, draw)
    \/ \E i \in 1..MaxCalls : SettleTransmitter(i)
    \/ \E props \in ProviderProps : ReplaceProvider(props)
    \/ \E props \in RerenderProps : RerenderProvider(props)

Spec == Init /\ [][Next]_vars


(***************************************************************************)
(* Properties.                                                             *)
(***************************************************************************)
EventsOf(t, kind) == SelectSeq(t, LAMBDA e : e.ev = kind)

\* the top-level keys of a snapshot
Keys(S) == DOMAIN OwnProperties(S)

\* N is S with every key of P set to P's value and every other key kept
IsShallowMerge(S, P, N) ==
    /\ DOMAIN N = Keys(S) \cup DOMAIN P
    /\ \A k \in DOMAIN P : N[k] = P[k]
    /\ \A k \in Keys(S) \ DOMAIN P : N[k] = S[k]

\* the snapshot the i-th update of a step was applied to
SnapshotBefore(A, i) == IF i = 1 THEN state ELSE A[i - 1].next

StepMergesShallowly(A) ==
    /\ \A i \in 1..Len(A) :
          PayloadType(A[i].payload) = "object"
              => IsShallowMerge(SnapshotBefore(A, i), ObjectOf(A[i].payload), A[i].next)
    /\ Len(A) >= 1 => state' = A[Len(A)].next

\* C1: update(P) with an object P takes the snapshot S it is applied to into
\* S with every top-level key of P set to P's value and every other key of S
\* kept; a nested object under a key of P replaces the old value whole.  The
\* snapshot after the step is the one the last update of the step gave.
C1_ShallowMerge == [][StepMergesShallowly(EventsOf(trace', "apply"))]_vars

\* an object with a nested value was merged over a snapshot that had another
\* nested value under the same key and other keys beside it
C1_Witness ==
    /\ \E i \in DOMAIN trace : trace[i].ev = "apply" /\ trace[i].payload = "pPortion"
    /\ state.portion = [baz |-> Prim("qux")]
    /\ Get(state, "rest") = [bar |-> Prim("x")]
    /\ Get(state, "result") = Prim("none")

\* C2: update(f) calls f with the snapshot that results from all the updates
\* called before it (those of the same batch included), and the partial state
\* f returns is shallow-merged into that snapshot.
C2_FunctionSeesPreviousSnapshot ==
    \A i \in DOMAIN trace :
        trace[i].ev = "apply" /\ PayloadType(trace[i].payload) = "function"
            => /\ trace[i].arg = trace[i].pre
               /\ IsShallowMerge(trace[i].pre, CallFn(trace[i].payload, trace[i].pre),
                                 trace[i].next)

\* a batch of {portion: ...} and then prev => ({rest: prev.portion}) was flushed
C2_Witness ==
    /\ trace # <<>>
    /\ trace[1].ev = "flush"
    /\ Len(trace[1].pending) = 2
    /\ trace[1].pending[1].payload = "pPortion"
    /\ trace[1].pending[2].payload = "fCopy"
    /\ state.rest = [baz |-> Prim("qux")]

\* the props of connector c by precedence: own props, then bound
\* transmitters, then the selected state, then the entrypoint
PropsByPrecedence(c, props, own, selected, entrypoint) ==
    /\ DOMAIN props = {"setGlobalState"} \cup Keys(selected) \cup Transmitters(c) \cup DOMAIN own
    /\ \A k \in DOMAIN props :
          props[k] = IF k \in DOMAIN own THEN own[k]
                     ELSE IF k \in Transmitters(c) THEN [bound |-> k, with |-> entrypoint]
                     ELSE IF k \in Keys(selected) THEN selected[k]
                     ELSE entrypoint

\* C3: the props a connected component is rendered with are the overlay of
\* {setGlobalState}, the selected state, the bound transmitters and its own
\* props, a later layer winning every key collision.
C3_PropsOverlayOrder ==
    \A c \in Attached(conn) :
        PropsByPrecedence(c, conn[c].props, conn[c].own,
                          mapStateToProps(c, state), Entrypoint(active))

\* one key is given by the own props, a transmitter and the state, another by
\* the own props, the state and the entrypoint
C3_Witness ==
    /\ conn["Game"].attached
    /\ conn["Game"].own # EmptyObject
    /\ {"coinflip", "setGlobalState"} \subseteq DOMAIN state
    /\ conn["Game"].props.coinflip = Prim("own")
    /\ conn["Part"].attached
    /\ conn["Part"].own = EmptyObject
    /\ IsEntrypoint(conn["Part"].props.setGlobalState)

\* C4: once a commit's notification pass has run, every attached connector
\* has been evaluated again and holds the props derived from the committed
\* snapshot, whether or not the commit changed what it selects.
C4_ConnectorsSeeLatestCommit ==
    /\ \A c \in Attached(conn) :
          /\ ~conn[c].stale
          /\ conn[c].props = ConsumerRender(c, ProviderValue(state, active), conn[c].own)
    /\ \A i \in DOMAIN trace :
          trace[i].ev = "commit"
              => /\ i < Len(trace)
                 /\ trace[i + 1].ev = "notify"
                 /\ trace[i + 1].evaluated = Attached(conn)

\* a commit changed `result` only, and the connector that selects `portion`
\* was evaluated again
C4_Witness ==
    /\ conn["Part"].attached
    /\ commits >= 1
    /\ Len(trace) >= 4
    /\ trace[1].ev = "update"
    /\ trace[1].payload = "pFlipping"
    /\ trace[3].ev = "commit"
    /\ "Part" \in trace[4].evaluated

\* C5: the update calls are applied one at a time in the order of the calls:
\* outside a batch the snapshot is the fold of the accepted payloads in call
\* order, and inside a batch processing the pending updates gives that fold.
C5_AppliedInCallOrder ==
    /\ ~batching => queue = <<>> /\ state = expected
    /\ processUpdateQueue(state, queue, state) = expected

\* two transmitters were in flight and settled after both had been invoked
C5_Witness ==
    /\ calls = 4
    /\ commits = 4
    /\ inflight = <<>>
    /\ trace[1].ev = "settle"
    /\ state.result \in {Prim("YOU WON!"), Prim("YOU LOST!")}


IsEffective(p) == PayloadType(p) \in {"object", "function"}

Effective(q) == SelectSeq(q, LAMBDA u : IsEffective(u.payload))

\* the updates a callback made during the step
MadeByCallbacks(t) == SelectSeq(t, LAMBDA e : e.ev = "update" /\ e.by = "callback")

\* the call of the step, made by a component, a transmitter or a settling
\* transmitter: its place in the trace, 0 when the step makes none
CallIndex(t) ==
    IF t = <<>> THEN 0
    ELSE IF t[1].ev = "update" THEN 1
    ELSE IF t[1].ev = "settle" THEN 2
    ELSE IF t[1].ev = "invoke" THEN 4
    ELSE 0

\* the step's call was accepted and flushed at once, outside a batch
FlushedAtOnce(t) ==
    /\ CallIndex(t) > 0
    /\ ~t[CallIndex(t)].batched
    /\ Len(t) > CallIndex(t)
    /\ t[CallIndex(t) + 1].ev = "apply"

\* the updates the step flushed, before those its callbacks made
FlushedBy(t) ==
    IF t # <<>> /\ t[1].ev = "flush" THEN t[1].pending
    ELSE IF FlushedAtOnce(t) THEN <<t[CallIndex(t)]>>
    ELSE <<>>

RendersOf(q) == IF Effective(q) = <<>> THEN 0 ELSE 1

\* C6 as the specification states it: N update calls of one batch give N
\* commits and N notification passes.
C6_OneCommitPerCall ==
    trace # <<>> /\ trace[1].ev = "flush"
        => /\ Len(EventsOf(trace, "commit"))
                = Len(Effective(trace[1].pending)) + Len(MadeByCallbacks(trace))
           /\ Len(EventsOf(trace, "notify"))
                = Len(Effective(trace[1].pending)) + Len(MadeByCallbacks(trace))

CommitsOfStep(t) == RendersOf(FlushedBy(t)) + RendersOf(MadeByCallbacks(t))

\* C6: an update call with an object or function payload made outside a React
\* batch is committed on its own, with its own notification pass; the calls
\* made inside one React batch are committed together, in one commit with
\* one notification pass, and so are the calls their callbacks make.
C6_CommitsPerFlush ==
    [][/\ commits' = commits + Len(EventsOf(trace', "commit"))
       /\ passes' = passes + Len(EventsOf(trace', "notify"))
       /\ Len(EventsOf(trace', "commit")) = CommitsOfStep(trace')
       /\ Len(EventsOf(trace', "notify")) = CommitsOfStep(trace')]_vars

\* a batch of two effective updates was flushed in one commit
C6_Witness ==
    /\ trace # <<>>
    /\ trace[1].ev = "flush"
    /\ Len(Effective(trace[1].pending)) = 2
    /\ Len(EventsOf(trace, "commit")) = 1
    /\ commits = 1
    /\ passes = 1

CallbackNames(q) ==
    [i \in 1..Len(WithCallback(q)) |-> WithCallback(q)[i].callback]

\* the callback at place j of the trace ran after the commit and the
\* notification pass of its update
RanAfterNotification(j) ==
    /\ trace[j].saw = trace[j].post
    /\ DOMAIN trace[j].sawProps = Attached(conn)
    /\ \A c \in Attached(conn) :
          trace[j].sawProps[c]
              = ConsumerRender(c, ProviderValue(trace[j].saw, active), conn[c].own)
    /\ Effective(FlushedBy(trace)) # <<>>
          => \E i \in 2..(j - 1) :
                /\ trace[i].ev = "notify"
                /\ trace[i - 1].ev = "commit"
                /\ trace[i - 1].snapshot = trace[j].saw

\* the update at place k of the trace, made by a callback, was applied to the
\* snapshot the callbacks found
AppliedOnTop(k) ==
    \E j \in 1..(k - 1), a \in (k + 1)..Len(trace) :
        /\ trace[j].ev = "callback"
        /\ trace[a].ev = "apply"
        /\ trace[a].arg = trace[j].saw
        /\ state = Fold(trace[j].saw, trace[k].payload)

\* C7: the callback of an update call runs exactly once, in the step that
\* flushes the update, after the commit and after the notification of the
\* attached connectors; an update made inside it is applied to the snapshot
\* that contains the first update.
C7_CallbackAfterCommit ==
    /\ [i \in 1..Len(EventsOf(trace, "callback")) |-> EventsOf(trace, "callback")[i].callback]
          = CallbackNames(FlushedBy(trace))
    /\ \A j \in DOMAIN trace : trace[j].ev = "callback" => RanAfterNotification(j)
    /\ \A k \in DOMAIN trace :
          trace[k].ev = "update" /\ trace[k].by = "callback" => AppliedOnTop(k)

\* setGlobalState({portion: ...}, () => setGlobalState(prev => ({rest:
\* prev.portion}))) was called
C7_Witness ==
    /\ \E j \in DOMAIN trace :
          /\ trace[j].ev = "callback"
          /\ trace[j].callback = "cbThen"
          /\ trace[j].payload = "pPortion"
    /\ state.portion = [baz |-> Prim("qux")]
    /\ state.rest = [baz |-> Prim("qux")]

\* C8: binding gives a map with exactly the names of the transmitter map and
\* calls no transmitter; calling a bound function with args calls the raw
\* transmitter with exactly args, then the function it returned with exactly
\* the entrypoint, once each, and returns what that second stage returns.
C8_BoundTransmitterCalls ==
    /\ \A c \in Connectors :
          DOMAIN _mapTransmittersToProps(Transmitters(c), Entrypoint(active))
              = Transmitters(c)
    /\ \A c \in Attached(conn) : \A k \in DOMAIN conn[c].props :
          IsBound(conn[c].props[k]) => k \in Transmitters(c) /\ conn[c].props[k].bound = k
    /\ \A i \in DOMAIN trace :
          trace[i].ev \in {"stage1", "stage2"} => trace[1].ev = "invoke"
    /\ trace # <<>> /\ trace[1].ev = "invoke"
          => /\ Len(trace) >= 3
             /\ trace[2] = [ev |-> "stage1", name |-> trace[1].name, args |-> trace[1].args]
             /\ trace[3] = [ev |-> "stage2", name |-> trace[1].name,
                            with |-> Entrypoint(active),
                            returned |-> TransmitterResult(trace[1].name)]
             /\ Len(EventsOf(trace, "stage1")) = 1
             /\ Len(EventsOf(trace, "stage2")) = 1

\* props.coinflip("TAILS", "extra") was called
C8_Witness ==
    /\ trace # <<>>
    /\ trace[1].ev = "invoke"
    /\ trace[1].args = <<"TAILS", "extra">>
    /\ state.result = Prim("Flipping!!")

\* C9: the bound transmitters an attached component holds were bound with the
\* entrypoint of the Provider that is mounted, also after a replacement, and
\* a call of one updates that Provider; a transmitter called earlier keeps
\* the entrypoint of the Provider mounted when it was bound.
C9_BoundToMountedProvider ==
    /\ \A c \in Attached(conn) : \A k \in DOMAIN conn[c].props :
          IsBound(conn[c].props[k]) => conn[c].props[k].with = Entrypoint(active)
    /\ \A i \in DOMAIN inflight : inflight[i].with = Entrypoint(inflight[i].during)
    /\ trace # <<>> /\ trace[1].ev = "invoke"
          => /\ trace[3].with = Entrypoint(active)
             /\ \A i \in DOMAIN trace : trace[i].ev # "dropped"
             /\ inflight[Len(inflight)].with = Entrypoint(active)

\* a transmitter bound under the first Provider is still in flight, and the
\* component called its transmitter again under the second
C9_Witness ==
    /\ active = 2
    /\ trace # <<>>
    /\ trace[1].ev = "invoke"
    /\ Len(inflight) = 2
    /\ inflight[1].with = Entrypoint(1)
    /\ inflight[2].with = Entrypoint(2)
    /\ state.result = Prim("Flipping!!")

\* typeof payload
Typeof(p) == IF PayloadType(p) = "null" THEN "object" ELSE PayloadType(p)

\* C10 as the specification states it: every payload that is neither an
\* object nor a function makes the call fail.
C10_NonObjectPayloadThrows ==
    \A i \in DOMAIN trace :
        trace[i].ev = "update" /\ Typeof(trace[i].payload) \notin {"object", "function"}
            => i < Len(trace) /\ trace[i + 1].ev = "throw"

RejectedOrAccepted(t, i) ==
    IF PayloadType(t[i].payload) \in {"number", "string"}
    THEN /\ Len(t) = i + 1
         /\ t[i + 1] = [ev |-> "throw", error |-> InvalidUpdatePayload]
         /\ UNCHANGED <<state, queue, conn, calls, commits, passes, expected>>
    ELSE /\ \A j \in DOMAIN t : t[j].ev # "throw"
         /\ PayloadType(t[i].payload) \in {"null", "undefined"} /\ t[i].by # "callback"
               => /\ state' = state
                  /\ EventsOf(t, "commit") = <<>>
                  /\ EventsOf(t, "notify") = <<>>

\* C10: a call with a number or string payload throws to its caller and
\* commits nothing: the snapshot, the pending updates and the connectors stay
\* as they were and no callback runs.  A null or undefined payload is accepted
\* and makes no commit and no notification pass.
C10_InvalidPayloadRejected ==
    [][\A i \in DOMAIN trace' : trace'[i].ev = "update" => RejectedOrAccepted(trace', i)]_vars

\* setGlobalState(7, callback) was called
C10_Witness ==
    /\ Len(trace) = 2
    /\ trace[1].ev = "update"
    /\ trace[1].payload = "pNumber"
    /\ trace[2].ev = "throw"
    /\ commits = 1


\* C11: constructing the Provider with a globalState that is not a non-null
\* object (left out, null, a primitive) fails with MissingInitialState and
\* establishes no snapshot; a non-null object becomes the first snapshot.
C11_MissingInitialStateFails ==
    \A i \in DOMAIN trace :
        trace[i].ev = "construct"
            => IF IsPrimitive(Get(trace[i].props, "globalState"))
               THEN /\ i < Len(trace)
                    /\ trace[i + 1] = [ev |-> "throw", error |-> "MissingInitialState"]
                    /\ ~mounted
               ELSE /\ state = trace[i].props.globalState
                    /\ mounted

\* C12: a connected component evaluated with no Provider above it fails: the
\* error leaves the Consumer's render function uncaught and <Component> is
\* not rendered with any props.
C12_NoProviderFails ==
    trace[1].ev = "attach" /\ trace[1].outside
        => /\ trace = <<trace[1], UncaughtError>>
           /\ ~conn[trace[1].by].attached

\* a connected component was rendered in a tree of its own while another is
\* mounted under the Provider
C12_Witness ==
    /\ trace[1].ev = "attach"
    /\ trace[1].outside
    /\ trace[1].by = "Game"
    /\ mounted
    /\ conn["Part"].attached
    /\ ~conn["Game"].attached


\* C13: connect(Game, null, {coinflip}) has no selector, and the selected
\* state is the whole snapshot: every top-level key of the snapshot is a prop
\* of the component with the snapshot's value, unless a bound transmitter or
\* an own prop has the same name.
C13_NoSelectorIsIdentity ==
    conn["Game"].attached
        => /\ mapStateToProps("Game", state) = state
           /\ \A k \in Keys(state) :
                 k \notin Transmitters("Game") \cup DOMAIN conn["Game"].own
                     => /\ k \in DOMAIN conn["Game"].props
                        /\ conn["Game"].props[k] = state[k]

\* the snapshot has the keys coinflip and setGlobalState beside its others:
\* the transmitter keeps coinflip, the state's setGlobalState is passed on
C13_Witness ==
    /\ conn["Game"].attached
    /\ conn["Game"].own = EmptyObject
    /\ {"coinflip", "setGlobalState", "portion", "rest", "result"} \subseteq Keys(state)
    /\ IsBound(conn["Game"].props.coinflip)
    /\ conn["Game"].props.setGlobalState = Prim("fromState")
    /\ conn["Game"].props.portion = state.portion

\* C14: under connect(Component, state => state.portion) the props that
\* come from the state are exactly the keys of the current state.portion
\* with their values: neither "portion" nor "rest" nor a key that only
\* state.rest has is a prop.
C14_OnlyPortionKeys ==
    conn["Part"].attached
        => /\ \A k \in DOMAIN conn["Part"].props :
                 k \notin DOMAIN conn["Part"].own \cup {"setGlobalState"}
                     => /\ k \in Keys(Get(state, "portion"))
                        /\ conn["Part"].props[k] = Get(state, "portion")[k]
           /\ Keys(Get(state, "portion")) \subseteq DOMAIN conn["Part"].props
           /\ DOMAIN conn["Part"].props \cap {"portion", "rest"} = {}
           /\ \A k \in Keys(Get(state, "rest")) \ Keys(Get(state, "portion")) :
                 k \in DOMAIN conn["Part"].props => k \in DOMAIN conn["Part"].own

\* state.portion was replaced by an update while state.rest kept its key
C14_Witness ==
    /\ conn["Part"].attached
    /\ conn["Part"].own = EmptyObject
    /\ commits >= 1
    /\ Get(state, "portion") = [baz |-> Prim("qux")]
    /\ Get(state, "rest") = [bar |-> Prim("x")]
    /\ DOMAIN conn["Part"].props = {"setGlobalState", "baz"}


\* the result of the commit a step made, none when it made no commit
CommittedResult(t) ==
    IF EventsOf(t, "commit") = <<>> THEN "none"
    ELSE Get(EventsOf(t, "commit")[1].snapshot, "result").prim

\* C15 as the specification states it: the invocation's first commit sets
\* result to "Flipping!!", and when the delay has passed one further commit
\* sets result to "YOU WON!" if the draw was the guess and to "YOU LOST!"
\* otherwise.
C15_OutcomeCommitted ==
    /\ trace[1].ev = "invoke" /\ ~batching
          => /\ Len(EventsOf(trace, "commit")) = 1
             /\ CommittedResult(trace) = "Flipping!!"
    /\ trace[1].ev = "settle"
          => /\ Len(EventsOf(trace, "commit")) = 1
             /\ CommittedResult(trace)
                   = IF trace[1].of.outcome = "pWon" THEN "YOU WON!" ELSE "YOU LOST!"

CoinflipCall(p, inBatch) ==
    [ev |-> "update", by |-> "coinflip", payload |-> p, callback |-> "none",
     batched |-> inBatch]

\* what coinflip(...args) leaves in flight when its draw was `draw`
Flipped(c, args, draw) ==
    [by |-> c, with |-> Entrypoint(active), during |-> active,
     outcome |-> IF args # <<>> /\ args[1] = draw THEN "pWon" ELSE "pLost"]

\* the step invoked coinflip: one update call, {result: "Flipping!!"}, applied
\* at once or queued in call order, and then the timer is started
InvokeStep(t) ==
    /\ t[4] = CoinflipCall("pFlipping", batching)
    /\ Len(EventsOf(t, "update")) = 1
    /\ t[Len(t)].ev = "timer"
    /\ inflight' = Append(inflight, Flipped(t[1].by, t[1].args, t[Len(t)].draw))
    /\ IF batching
       THEN /\ state' = state
            /\ Len(queue') = Len(queue) + 1
            /\ queue'[Len(queue')].payload = "pFlipping"
       ELSE /\ state' = Spread(state, [result |-> Prim("Flipping!!")])
            /\ commits' = commits + 1

\* the step settled the i-th transmitter in flight: one update call with its
\* outcome, committed if the Provider it was bound to is still mounted and
\* without any effect if not
SettleStep(t, i) ==
    /\ t[1].of = inflight[i]
    /\ inflight' = SubSeq(inflight, 1, i - 1) \o SubSeq(inflight, i + 1, Len(inflight))
    /\ t[2] = CoinflipCall(inflight[i].outcome, FALSE)
    /\ Len(EventsOf(t, "update")) = 1
    /\ IF inflight[i].with = Entrypoint(active) /\ mounted
       THEN /\ commits' = commits + 1
            /\ state' = Spread(state,
                               [result |-> Prim(IF inflight[i].outcome = "pWon"
                                                THEN "YOU WON!" ELSE "YOU LOST!")])
       ELSE /\ t[3].ev = "dropped"
            /\ UNCHANGED <<state, commits, passes, conn>>

\* C15: invoking the bound coinflip(guess) makes one update call with
\* {result: "Flipping!!"} and starts the timer; when the timer fires the
\* transmitter makes exactly one further update call, {result: "YOU WON!"}
\* if its draw was the guess and {result: "YOU LOST!"} otherwise, never
\* before the first call and never with the other outcome.  Each call is
\* committed in call order if the Provider the transmitter was bound to is
\* still mounted; if it is not, the call changes nothing.
C15_CoinflipCommits ==
    [][/\ trace'[1].ev = "invoke" => InvokeStep(trace')
       /\ trace'[1].ev = "settle" => \E i \in DOMAIN inflight : SettleStep(trace', i)
       /\ \A j \in DOMAIN trace' :
             trace'[j].ev = "update" /\ trace'[j].payload \in {"pWon", "pLost"}
                 => trace'[1].ev = "settle"]_vars

\* a coinflip("HEADS") that drew HEADS has settled
C15_Witness ==
    /\ trace[1].ev = "settle"
    /\ trace[1].of.outcome = "pWon"
    /\ Get(state, "result") = Prim("YOU WON!")
    /\ commits = 2
    /\ inflight = <<>>


\* C16: the snapshot of a Provider changes only when an update is committed:
\* a step that mounts or unmounts a connected component (which evaluates the
\* connector and binds the transmitters), starts an event handler or renders
\* the Provider again leaves the snapshot and the pending updates as they
\* are.  The only other change of the snapshot is the construction of a new
\* Provider, which sets that Provider's first snapshot.
C16_SnapshotChangesOnlyByUpdate ==
    [][/\ trace'[1].ev \in {"attach", "detach", "handler", "rerender"}
             => UNCHANGED <<state, expected, queue, commits>>
       /\ state' # state
             => \/ trace'[1].ev = "replace"
                \/ /\ EventsOf(trace', "commit") # <<>>
                   /\ EventsOf(trace', "apply") # <<>>
                   /\ state' = EventsOf(trace', "apply")[Len(EventsOf(trace', "apply"))].next]_vars

\* after a commit one component unmounted while the other holds its props,
\* and a transmitter was bound and never invoked
C16_Witness ==
    /\ trace[1].ev = "detach"
    /\ trace[1].by = "Game"
    /\ conn["Part"].attached
    /\ commits = 1
    /\ calls = 1
    /\ inflight = <<>>
    /\ Get(state, "portion") = [baz |-> Prim("qux")]


\* the step was the update call of a transmitter whose invoking component is
\* unmounted and whose Provider is mounted
SettledDetached ==
    /\ trace[1].ev = "settle"
    /\ ~conn[trace[1].of.by].attached
    /\ trace[1].of.with = Entrypoint(active)
    /\ mounted

\* C17: there is no cancellation: when a transmitter in flight makes its
\* update call after the component that invoked it has unmounted, and the
\* Provider it was bound to is still mounted, the call is accepted and
\* committed like any other, and the components mounted under the Provider
\* are rendered from the snapshot it gives.
C17_NoCancellation ==
    SettledDetached
        => /\ \A j \in DOMAIN trace : trace[j].ev \notin {"dropped", "throw", "cancelled"}
           /\ Len(EventsOf(trace, "commit")) = 1
           /\ EventsOf(trace, "commit")[1].snapshot = state
           /\ state.result = ObjectOf(trace[1].of.outcome).result
           /\ \A c \in Attached(conn) :
                 conn[c].props = ConsumerRender(c, ProviderValue(state, active), conn[c].own)

\* the component that invoked coinflip unmounted, no component is mounted,
\* and the outcome was committed when the timer fired
C17_Witness ==
    /\ trace[1].ev = "settle"
    /\ Attached(conn) = {}
    /\ mounted
    /\ commits = 2
    /\ Get(state, "result") \in {Prim("YOU WON!"), Prim("YOU LOST!")}


\* the selector of connector c throws on snapshot st
SelectorThrows(c, st) == IsThrown(mapStateToProps(c, st))

\* the step rendered a connected component, mounting under the Provider,
\* whose selector threw
MountThrew(t) ==
    /\ t[1].ev = "attach"
    /\ ~t[1].outside
    /\ SelectorThrows(t[1].by, state)

\* the step rendered the connected components under a new Provider and a
\* selector threw
RemountThrew(t) ==
    /\ t[1].ev = "replace"
    /\ \E c \in Attached(conn) : SelectorThrows(c, state')

\* C18: an exception thrown by a selector while a connector is evaluated
\* leaves the evaluation uncaught: the component is not rendered, with
\* fallback props or any other, no component is ever mounted with props from
\* a selector that threw, and the evaluation leaves the snapshot as it was.
C18_SelectorExceptionPropagates ==
    [][/\ MountThrew(trace')
             => /\ trace' = <<trace'[1], UncaughtError>>
                /\ ~conn'[trace'[1].by].attached
                /\ UNCHANGED <<state, expected, queue, commits>>
       /\ RemountThrew(trace')
             => /\ trace'[Len(trace')] = UncaughtError
                /\ Attached(conn') = {}
                /\ state' = Get(trace'[2].props, "globalState")
       /\ \A c \in Attached(conn') : ~SelectorThrows(c, state')]_vars

\* connect(NeedsPartOfState, state => state.portion) was mounted under a
\* Provider whose snapshot is undefined
C18_Witness ==
    /\ trace = <<[ev |-> "attach", by |-> "Part", outside |-> FALSE], UncaughtError>>
    /\ state = Undefined
    /\ ~mounted
    /\ Attached(conn) = {}

\* C19: rendering the mounted Provider again with another globalState prop
\* does not change the snapshot, reset it to the prop or merge the prop into
\* it: the committed updates stay, and the connected components are rendered
\* again from the snapshot as it was.
C19_PropChangeIgnored ==
    [][trace'[1].ev = "rerender"
          => /\ UNCHANGED <<state, expected, queue, commits, calls>>
             /\ state' # Get(trace'[1].props, "globalState")
             /\ \A c \in Attached(conn') :
                   conn'[c].props
                       = ConsumerRender(c, ProviderValue(state, active), conn'[c].own)]_vars

\* the Provider was rendered again with another globalState after an update
\* had been committed
C19_Witness ==
    /\ trace[1].ev = "rerender"
    /\ commits = 1
    /\ Get(state, "portion") = [baz |-> Prim("qux")]
    /\ Get(state, "result") = Prim("none")
    /\ conn["Game"].attached
    /\ conn["Game"].own = EmptyObject
    /\ conn["Game"].props.portion = [baz |-> Prim("qux")]

=============================================================================
